---- MODULE Spec2Model ----
(***************************************************************************)
(* Model of the Flask application in src/app.py and of its two WTForms     *)
(* schemas in src/forms.py: field validation, the GET/POST handlers of     *)
(* /contact and /newsletter with their flash and redirect behaviour, the   *)
(* application-wide CSRF check, and the /api/ai-chat stub.                 *)
(*                                                                         *)
(* A Python string is a sequence of one-character strings, except that a   *)
(* literal piece of text of the program (a template fragment, an agent id, *)
(* a JSON key) is kept as one element.                                     *)
(*                                                                         *)
(* The application is taken as __main__ serves it (debug=True, so that     *)
(* Talisman does not redirect to HTTPS), and /api/ai-chat as it answers a  *)
(* request whose body parses as JSON.                                      *)
(***************************************************************************)
EXTENDS Integers, Sequences, FiniteSets, TLC

VARIABLES
    session,    \* client -> [csrf_token, flashes]: the client's Flask session
    log,        \* the lines written through `logger`, oldest first
    req,        \* the request handled last
    resp,       \* the response to it
    created,    \* client -> number of flash messages its requests have set
    delivered,  \* client -> number of flash messages shown on its pages
    chatHist,   \* the /api/ai-chat exchanges so far, as <<body, response>>
    which,      \* validation runs: the schema being validated
    formdata,   \* validation runs: the submitted field mapping
    result      \* validation runs: the outcome of validate(), or NoResult

vars == <<session, log, req, resp, created, delivered, chatHist,
          which, formdata, result>>

----------------------------------------------------------------------------
(* Strings *)

Rep(ch, n) == [i \in 1..n |-> ch]

IsWhitespace(ch) == ch \in {" ", "\t", "\n"}

\* str.strip(): the string without its leading and trailing whitespace.
strip(s) ==
    LET idx == {i \in 1..Len(s) : ~IsWhitespace(s[i])}
    IN  IF idx = {} THEN <<>>
        ELSE LET lo == CHOOSE i \in idx : \A j \in 1..(i - 1) : IsWhitespace(s[j])
                 hi == CHOOSE i \in idx :
                           \A j \in (i + 1)..Len(s) : IsWhitespace(s[j])
             IN  SubSeq(s, lo, hi)

\* `needle in haystack` on two strings.
IsSubstring(needle, haystack) ==
    \E i \in 0..(Len(haystack) - Len(needle)) :
        \A j \in 1..Len(needle) : haystack[i + j] = needle[j]

----------------------------------------------------------------------------
(* Field data and validators (wtforms.validators, as used in src/forms.py) *)

\* The data of a field after FlaskForm has processed the submitted mapping:
\* None when the mapping has no entry for the field.
field_data(fd, name) ==
    IF name \in DOMAIN fd THEN [none |-> FALSE, s |-> fd[name]]
    ELSE [none |-> TRUE, s |-> <<>>]

Msg(text, min, max) == [text |-> text, min |-> min, max |-> max]

RequiredMessage == Msg("This field is required.", 0, 0)
EmailMessage    == Msg("Please enter a valid email address", 0, 0)
LengthMessage(min, max) ==
    Msg("Field must be between %(min)d and %(max)d characters long.", min, max)

\* A validator's outcome: it passes, or fails with a message; `stop` ends the
\* field's validation chain (StopValidation).
Pass == [ok |-> TRUE, stop |-> FALSE, msg |-> Msg("", 0, 0)]
Fail(msg, stop) == [ok |-> FALSE, stop |-> stop, msg |-> msg]

DataRequiredNoStop(data) ==
    IF ~data.none /\ strip(data.s) # <<>> THEN Pass
    ELSE Fail(RequiredMessage, FALSE)

\* DataRequired(): the data must be truthy and, stripped, non-empty.
DataRequired(data) ==
    IF ~data.none /\ data.s # <<>> /\ strip(data.s) # <<>> THEN Pass
    ELSE Fail(RequiredMessage, TRUE)

LengthExclusive(min, max, data) ==
    LET length == IF ~data.none /\ data.s # <<>> THEN Len(data.s) ELSE 0
    IN  IF length > min /\ (max = -1 \/ length < max) THEN Pass
        ELSE Fail(LengthMessage(min, max), FALSE)

\* Length(min, max): min <= len(data) <= max, None and "" counting as 0.
Length(min, max, data) ==
    LET length == IF ~data.none /\ data.s # <<>> THEN Len(data.s) ELSE 0
    IN  IF length >= min /\ (max = -1 \/ length <= max) THEN Pass
        ELSE Fail(LengthMessage(min, max), FALSE)

AtomChars ==
    {"a", "b", "c", "d", "e", "h", "i", "j", "l", "m", "n", "o", "p", "t",
     "x", "-", "1"}

\* The shape email_validator accepts (deliverability unchecked): one "@",
\* a dot-atom before it, and after it a domain of at least two labels.
EmailShape(s) ==
    \E k \in 1..Len(s) :
        /\ s[k] = "@"
        /\ \A j \in 1..Len(s) : s[j] = "@" => j = k
        /\ k > 1 /\ k < Len(s)
        /\ \A j \in 1..Len(s) : j # k => s[j] \in AtomChars \cup {"."}
        /\ s[1] # "." /\ s[k - 1] # "." /\ s[k + 1] # "." /\ s[Len(s)] # "."
        /\ \A j \in 1..(Len(s) - 1) : ~(s[j] = "." /\ s[j + 1] = ".")
        /\ \E j \in (k + 1)..Len(s) : s[j] = "."

\* Email(message=...): None fails, otherwise the shape decides.
Email(data) ==
    IF ~data.none /\ EmailShape(data.s) THEN Pass
    ELSE Fail(EmailMessage, FALSE)

V(kind, min, max) == [kind |-> kind, min |-> min, max |-> max]

CallValidator(v, data) ==
    CASE v.kind = "DataRequired" -> DataRequired(data)
      [] v.kind = "Length"       -> Length(v.min, v.max, data)
      [] v.kind = "Email"        -> Email(data)

ContactForm ==
    [name    |-> <<V("DataRequired", 0, 0), V("Length", 2, 100)>>,
     email   |-> <<V("DataRequired", 0, 0), V("Email", 0, 0)>>,
     message |-> <<V("DataRequired", 0, 0), V("Length", 10, 2000)>>]

NewsletterForm ==
    [email |-> <<V("DataRequired", 0, 0), V("Email", 0, 0)>>]

Schema(form) ==
    IF form = "ContactForm" THEN ContactForm ELSE NewsletterForm

RECURSIVE run_validation_chain(_, _)
\* Field._run_validation_chain: the validators in declared order; a failure
\* adds its message, and one raised as StopValidation ends the chain.
run_validation_chain(validators, data) ==
    IF validators = <<>> THEN <<>>
    ELSE LET r == CallValidator(Head(validators), data)
         IN  IF r.ok THEN run_validation_chain(Tail(validators), data)
             ELSE IF r.stop THEN <<r.msg>>
             ELSE <<r.msg>> \o run_validation_chain(Tail(validators), data)

form_errors(form, fd) ==
    [f \in DOMAIN Schema(form) |->
        run_validation_chain(Schema(form)[f], field_data(fd, f))]

validate_any(form, fd) ==
    \E f \in DOMAIN Schema(form) : form_errors(form, fd)[f] = <<>>

\* Form.validate(): every field is validated; success iff none has errors.
validate(form, fd) ==
    \A f \in DOMAIN Schema(form) : form_errors(form, fd)[f] = <<>>

----------------------------------------------------------------------------
(* Validation runs: validate() applied to one submitted mapping *)

Str_jo      == <<"j", "o">>
Str_a_b_com == <<"a", "@", "b", ".", "c", "o", "m">>
Str_jo_example_com ==
    <<"j", "o", "@", "e", "x", "a", "m", "p", "l", "e", ".", "c", "o", "m">>
Str_not_an_email ==
    <<"n", "o", "t", "-", "a", "n", "-", "e", "m", "a", "i", "l">>
Str_hello_world ==
    <<"h", "e", "l", "l", "o", " ", "w", "o", "r", "l", "d">>
Str_1234567890 == <<"1", "2", "3", "4", "5", "6", "7", "8", "9", "0">>

NameInputs ==
    {Rep("a", n) : n \in {0, 1, 2, 3, 99, 100, 101}}
        \cup {Rep(" ", n) : n \in {1, 2, 101}}
        \cup {<<" ", "a">>, <<" ", "a", " ">>, Str_jo}

EmailInputs ==
    {<<>>, <<" ">>, Str_a_b_com, Str_jo_example_com, Str_not_an_email,
     <<"a", "@", "b">>, <<"@", "b", ".", "c", "o", "m">>,
     <<"a", "@", "@", "b", ".", "c", "o", "m">>, Str_a_b_com \o <<" ">>}

MessageInputs ==
    {Rep("a", n) : n \in {0, 9, 10, 11, 1999, 2000, 2001}}
        \cup {Rep(" ", n) : n \in {10, 2001}}
        \cup {Str_hello_world, Str_1234567890}

\* The mappings over a subset of the fields: an absent entry is a field the
\* request did not send.
ContactMappings ==
    LET values == [name |-> NameInputs, email |-> EmailInputs,
                   message |-> MessageInputs]
    IN  UNION {{[f \in fields |->
                    CASE f = "name" -> n [] f = "email" -> e [] f = "message" -> m] :
                  n \in NameInputs, e \in EmailInputs, m \in MessageInputs} :
               fields \in SUBSET {"name", "email", "message"}}

NewsletterMappings ==
    {[f \in fields |-> e] : fields \in SUBSET {"email"}, e \in EmailInputs}

NoResult == [done |-> FALSE, valid |-> FALSE, errors |-> <<>>]

NoRequest ==
    [client |-> 0, method |-> "", path |-> "", token |-> 0, form |-> <<>>,
     body |-> <<>>]

NoResponse == [status |-> 0, kind |-> "none", template |-> "", location |-> "",
               flashes |-> <<>>, values |-> <<>>, errors |-> <<>>, json |-> <<>>]

NClients == 2

Clients == 1..NClients

InitIdle ==
    /\ session = [c \in Clients |-> [csrf_token |-> 0, flashes |-> <<>>]]
    /\ log = <<>>
    /\ req = NoRequest
    /\ resp = NoResponse
    /\ created = [c \in Clients |-> 0]
    /\ delivered = [c \in Clients |-> 0]
    /\ chatHist = <<>>

InitValidate ==
    /\ InitIdle
    /\ \/ which = "ContactForm" /\ formdata \in ContactMappings
       \/ which = "NewsletterForm" /\ formdata \in NewsletterMappings
    /\ result = NoResult

Validate ==
    /\ ~result.done
    /\ result' = [done |-> TRUE, valid |-> validate(which, formdata),
                  errors |-> form_errors(which, formdata)]
    /\ UNCHANGED <<session, log, req, resp, created, delivered, chatHist,
                   which, formdata>>

NextValidate == Validate

SpecValidate == InitValidate /\ [][NextValidate]_vars

----------------------------------------------------------------------------
(* Sessions, CSRF protection and flash messages *)

MaxLog == 2

\* The tokens a request of client c is sent with: none (0), the one of its
\* own session, or the one of another client's session.
Tokens(c) == {0, c, (c % NClients) + 1}

\* flask_wtf.csrf.validate_csrf: the request carries a token, the session
\* holds one, and they are the same.
validate_csrf(sess, c, token) ==
    token # 0 /\ sess[c].csrf_token # 0 /\ token = sess[c].csrf_token

protectNothing(sess, c, method, token) == TRUE

\* CSRFProtect(app): before every request whose method can change state.
protect(sess, c, method, token) ==
    method \in {"POST", "PUT", "PATCH", "DELETE"} => validate_csrf(sess, c, token)

\* Constructing a FlaskForm puts a fresh token into a session that has none;
\* a session's token is its client's number.
generate_csrf(sess, c) ==
    IF sess[c].csrf_token = 0 THEN [sess EXCEPT ![c].csrf_token = c] ELSE sess

flash_shared(sess, c, message, category) ==
    [d \in DOMAIN sess |->
        [sess[d] EXCEPT !.flashes =
            Append(@, [category |-> category, message |-> message, by |-> c])]]

flash_twice(sess, c, message, category) ==
    [sess EXCEPT ![c].flashes =
        @ \o <<[category |-> category, message |-> message, by |-> c],
               [category |-> category, message |-> message, by |-> c]>>]

\* flash(message, category) in a request of client c; `by` records whose
\* request set the message.
flash(sess, c, message, category) ==
    [sess EXCEPT ![c].flashes =
        Append(@, [category |-> category, message |-> message, by |-> c])]

\* What a rendered page displays of the session's flash messages ...
get_flashed_messages(sess, c) == sess[c].flashes

\* ... and the session once the page has displayed them.
pop_flashes(sess, c) == [sess EXCEPT ![c].flashes = <<>>]

----------------------------------------------------------------------------
(* Requests and responses *)

JStr(s) == [t |-> "str", s |-> s, n |-> 0]
JNum(n) == [t |-> "num", s |-> <<>>, n |-> n]
JNull   == [t |-> "null", s |-> <<>>, n |-> 0]

BNull   == [kind |-> "null", obj |-> <<>>, arr |-> <<>>, str |-> <<>>, num |-> 0]
BObj(o) == [BNull EXCEPT !.kind = "object", !.obj = o]
BArr(a) == [BNull EXCEPT !.kind = "array", !.arr = a]
BStr(x) == [BNull EXCEPT !.kind = "string", !.str = x]
BNum(n) == [BNull EXCEPT !.kind = "number", !.num = n]

Request(c, method, path, token, fd, body) ==
    [client |-> c, method |-> method, path |-> path, token |-> token,
     form |-> fd, body |-> body]

NoJson == [agentId |-> JNull, message |-> <<>>, timestamp |-> JNull, error |-> ""]

Response(status, kind) ==
    [status |-> status, kind |-> kind, template |-> "", location |-> "",
     flashes |-> <<>>, values |-> <<>>, errors |-> <<>>, json |-> NoJson]

\* render_template(template, form=form): 200 unless the caller says otherwise.
page(status, template, sess, c, values, errors) ==
    [Response(status, "page") EXCEPT
        !.template = template, !.flashes = get_flashed_messages(sess, c),
        !.values = values, !.errors = errors]

redirect_home(location) == [Response(302, "redirect") EXCEPT !.location = "/"]

redirect(location) == [Response(302, "redirect") EXCEPT !.location = location]

jsonify(status, json) == [Response(status, "json") EXCEPT !.json = json]

\* The response of a request that CSRFProtect refuses.
csrf_error == Response(400, "error")

----------------------------------------------------------------------------
(* The form routes, src/app.py *)

submitted_only(method, form, fd) == method = "POST"

\* request.method == 'POST' and form.validate()
submitted_and_valid(method, form, fd) == method = "POST" /\ validate(form, fd)

\* f"...{form.email.data}": the submitted address, "None" when there is none.
email_data(fd) == IF "email" \in DOMAIN fd THEN fd.email ELSE <<"None">>

form_route(c, method, token, fd, path, form, template, line, message) ==
    /\ req' = Request(c, method, path, token, fd, BNull)
    /\ IF ~protect(session, c, method, token)
       THEN /\ resp' = csrf_error
            /\ UNCHANGED <<session, log, created, delivered>>
       ELSE LET s1 == generate_csrf(session, c)
            IN  IF submitted_and_valid(method, form, fd)
                THEN /\ Len(log) < MaxLog
                     /\ log' = Append(log, [text |-> line, args |-> <<email_data(fd)>>])
                     /\ session' = flash(s1, c, message, "success")
                     /\ created' = [created EXCEPT ![c] = @ + 1]
                     /\ resp' = redirect(path)
                     /\ UNCHANGED delivered
                ELSE /\ resp' = page(200, template, s1, c,
                                     IF method = "POST" THEN fd ELSE <<>>,
                                     IF method = "POST" THEN form_errors(form, fd)
                                     ELSE [f \in DOMAIN Schema(form) |-> <<>>])
                     /\ session' = pop_flashes(s1, c)
                     /\ delivered' = [delivered EXCEPT
                                         ![c] = @ + Len(get_flashed_messages(s1, c))]
                     /\ UNCHANGED <<log, created>>
    /\ UNCHANGED <<which, formdata, result>>

newsletter(c, method, token, fd) ==
    form_route(c, method, token, fd, "/newsletter", "NewsletterForm",
               "newsletter_page.html",
               "Newsletter subscription request for email: ",
               "Thank you for subscribing!")

contact(c, method, token, fd) ==
    form_route(c, method, token, fd, "/contact", "ContactForm",
               "contact_page.html", "Contact form submission from: ",
               "Message sent successfully!")

home(c) ==
    /\ req' = Request(c, "GET", "/", 0, <<>>, BNull)
    /\ resp' = page(200, "home_page.html", session, c, <<>>, <<>>)
    /\ session' = pop_flashes(session, c)
    /\ delivered' = [delivered EXCEPT
                        ![c] = @ + Len(get_flashed_messages(session, c))]
    /\ UNCHANGED <<log, created, which, formdata, result>>

----------------------------------------------------------------------------
(* The chat stub, src/app.py *)

MESSAGE   == <<"message">>
AGENTID   == <<"agentId">>
TIMESTAMP == <<"timestamp">>

RECURSIVE Digits(_)
Digits(n) ==
    LET d == <<"0", "1", "2", "3", "4", "5", "6", "7", "8", "9">>[(n % 10) + 1]
    IN  IF n < 10 THEN <<d>> ELSE Digits(n \div 10) \o <<d>>

\* How an f-string renders a JSON value.
Format(v) ==
    CASE v.t = "str"  -> v.s
      [] v.t = "num"  -> Digits(v.n)
      [] v.t = "null" -> <<"None">>

\* `not data`
falsy(data) ==
    CASE data.kind = "null"   -> TRUE
      [] data.kind = "object" -> DOMAIN data.obj = {}
      [] data.kind = "array"  -> data.arr = <<>>
      [] data.kind = "string" -> data.str = <<>>
      [] data.kind = "number" -> data.num = 0

\* Lines 157 to 163 on the parsed body: the 400 branch, a TypeError raised by
\* `in` on a number or by data['agentId'] on a list or a string, or neither.
check_body(data) ==
    IF falsy(data) THEN "bad_request"
    ELSE CASE data.kind = "object" ->
                IF MESSAGE \notin DOMAIN data.obj \/ AGENTID \notin DOMAIN data.obj
                THEN "bad_request" ELSE "ok"
           [] data.kind = "array" ->
                IF \/ ~\E i \in 1..Len(data.arr) : data.arr[i] = JStr(MESSAGE)
                   \/ ~\E i \in 1..Len(data.arr) : data.arr[i] = JStr(AGENTID)
                THEN "bad_request" ELSE "TypeError"
           [] data.kind = "string" ->
                IF ~IsSubstring(MESSAGE, data.str) \/ ~IsSubstring(AGENTID, data.str)
                THEN "bad_request" ELSE "TypeError"
           [] data.kind = "number" -> "TypeError"

simulated_one_template(agent_id, user_message) ==
    <<"I've received your message about '">> \o Format(user_message)
        \o <<"' and I'm processing it thoughtfully.">>

\* The simulated response, lines 168 to 177.
simulated_response(agent_id, user_message) ==
    LET m == Format(user_message)
    IN  IF agent_id = JStr(<<"cosmic-guide">>) THEN
            <<"The cosmic energies are guiding you toward inner peace. Your question about '">>
                \o m \o <<"' relates to the universal flow of consciousness.">>
        ELSE IF agent_id = JStr(<<"harmonic-helper">>) THEN
            <<"The frequency patterns in your message about '">> \o m
                \o <<"' resonate with the 432 Hz healing frequency. This can harmonize your energy centers.">>
        ELSE IF agent_id = JStr(<<"wisdom-keeper">>) THEN
            <<"Ancient wisdom teaches us that questions like '">> \o m
                \o <<"' lead us to deeper understanding. The path of self-discovery is eternal.">>
        ELSE IF agent_id = JStr(<<"shop-oracle">>) THEN
            <<"Based on your interest in '">> \o m
                \o <<"', I recommend our new crystal sound bowls and harmonizing essential oils, available in our shop.">>
        ELSE
            <<"I've received your message about '">> \o m
                \o <<"' and I'm processing it thoughtfully.">>

\* request.json.get('timestamp', '')
get_timestamp(obj) ==
    IF TIMESTAMP \in DOMAIN obj THEN obj[TIMESTAMP] ELSE JStr(<<>>)

\* errorhandler(500): the error is logged and the 500 page rendered.
internal_server_error(c, e) ==
    /\ Len(log) < MaxLog
    /\ log' = Append(log, [text |-> "Internal server error: ", args |-> <<<<e>>>>])
    /\ resp' = page(500, "500.html", session, c, <<>>, <<>>)
    /\ session' = pop_flashes(session, c)
    /\ delivered' = [delivered EXCEPT
                        ![c] = @ + Len(get_flashed_messages(session, c))]
    /\ UNCHANGED created

send_ai_message(c, token, data) ==
    /\ req' = Request(c, "POST", "/api/ai-chat", token, <<>>, data)
    /\ IF ~protect(session, c, "POST", token)
       THEN /\ resp' = csrf_error
            /\ UNCHANGED <<session, log, created, delivered>>
       ELSE CASE check_body(data) = "bad_request" ->
                   /\ resp' = jsonify(400, [NoJson EXCEPT
                                               !.error = "Invalid message format"])
                   /\ UNCHANGED <<session, log, created, delivered>>
              [] check_body(data) = "TypeError" ->
                   internal_server_error(c, "TypeError")
              [] check_body(data) = "ok" ->
                   LET agent_id == data.obj[AGENTID]
                       user_message == data.obj[MESSAGE]
                   IN  /\ Len(log) < MaxLog
                       /\ log' = Append(log,
                              [text |-> "AI chat message to ",
                               args |-> <<Format(agent_id), Format(user_message)>>])
                       /\ resp' = jsonify(200,
                              [agentId |-> agent_id,
                               message |-> simulated_response(agent_id, user_message),
                               timestamp |-> get_timestamp(data.obj),
                               error |-> ""])
                       /\ UNCHANGED <<session, created, delivered>>
    /\ UNCHANGED <<which, formdata, result>>

----------------------------------------------------------------------------
(* The application serving its clients *)

ContactPosts ==
    {[name |-> Str_jo, email |-> Str_a_b_com, message |-> Str_1234567890],
     [name |-> <<"a">>, message |-> Str_hello_world]}

NewsletterPosts == {[email |-> Str_a_b_com], [email |-> Str_not_an_email]}

Str_peace == <<"p", "e", "a", "c", "e">>

Obj(agent, message) == BObj((AGENTID :> agent) @@ (MESSAGE :> message))

Init ==
    /\ InitIdle
    /\ which = "ContactForm"
    /\ formdata = <<>>
    /\ result = NoResult

Next ==
    \/ \E c \in Clients : home(c) /\ UNCHANGED chatHist
    \/ \E c \in Clients : contact(c, "GET", 0, <<>>) /\ UNCHANGED chatHist
    \/ \E c \in Clients : \E token \in Tokens(c), fd \in ContactPosts :
          contact(c, "POST", token, fd) /\ UNCHANGED chatHist
    \/ \E c \in Clients : newsletter(c, "GET", 0, <<>>) /\ UNCHANGED chatHist
    \/ \E c \in Clients : \E token \in Tokens(c), fd \in NewsletterPosts :
          newsletter(c, "POST", token, fd) /\ UNCHANGED chatHist

Spec == Init /\ [][Next]_vars

----------------------------------------------------------------------------
(* The three POST endpoints under the CSRF check: every submission would   *)
(* be accepted on its fields, and is sent with no token, with the token of *)
(* the client's session, with another session's, or with a forged one      *)

\* A token that no session holds (one whose signature does not verify).
Forged == NClients + 1

ValidContact ==
    [name |-> Str_jo, email |-> Str_jo_example_com, message |-> Str_hello_world]

ValidNewsletter == [email |-> Str_a_b_com]

ValidChat == Obj(JStr(<<"cosmic-guide">>), JStr(Str_peace))

NextCsrf ==
    \/ \E c \in Clients : contact(c, "GET", 0, <<>>) /\ UNCHANGED chatHist
    \/ \E c \in Clients : \E token \in Tokens(c) \cup {Forged} :
          contact(c, "POST", token, ValidContact) /\ UNCHANGED chatHist
    \/ \E c \in Clients : \E token \in Tokens(c) \cup {Forged} :
          newsletter(c, "POST", token, ValidNewsletter) /\ UNCHANGED chatHist
    \/ \E c \in Clients : \E token \in Tokens(c) \cup {Forged} :
          send_ai_message(c, token, ValidChat) /\ UNCHANGED chatHist

SpecCsrf == Init /\ [][NextCsrf]_vars

----------------------------------------------------------------------------
(* The chat stub on its own: one client, whose session holds a token as   *)
(* after a visit of a form page, posting bodies of every JSON shape        *)

MaxChat == 2

AgentIds ==
    {JStr(<<"cosmic-guide">>), JStr(<<"harmonic-helper">>),
     JStr(<<"wisdom-keeper">>), JStr(<<"shop-oracle">>),
     JStr(<<"star-seer">>), JStr(<<>>)}

ChatBodies ==
    {Obj(a, JStr(Str_peace)) : a \in AgentIds}
        \cup {BObj(AGENTID :> a) : a \in {JStr(<<"cosmic-guide">>)}}
        \cup {Obj(JStr(<<"cosmic-guide">>), m) :
                m \in {JStr(<<"h", "i">>), JStr(<<>>), JNum(42), JNull}}
        \cup {BObj((AGENTID :> JStr(<<"shop-oracle">>)) @@ (MESSAGE :> JStr(Str_peace))
                       @@ (TIMESTAMP :> t)) :
                t \in {JStr(<<"2", "0", "2", "5">>), JNum(170), JNull}}
        \cup {Obj(JNum(7), JStr(Str_peace)), Obj(JNull, JStr(Str_peace))}
        \cup {BObj(MESSAGE :> JStr(<<"h", "i">>)), BObj(<<>>), BNull,
              BObj(TIMESTAMP :> JNum(170)),
              BArr(<<JStr(MESSAGE), JStr(AGENTID)>>), BArr(<<JStr(MESSAGE)>>),
              BStr(<<"message", " ", "agentId">>), BStr(<<"agentId">>),
              BNum(5), BNum(0)}

InitChat ==
    /\ session = [c \in Clients |-> [csrf_token |-> c, flashes |-> <<>>]]
    /\ log = <<>>
    /\ req = NoRequest
    /\ resp = NoResponse
    /\ created = [c \in Clients |-> 0]
    /\ delivered = [c \in Clients |-> 0]
    /\ chatHist = <<>>
    /\ which = "ContactForm"
    /\ formdata = <<>>
    /\ result = NoResult

Chat ==
    \E token \in {0, 1}, data \in ChatBodies :
        /\ Len(chatHist) < MaxChat
        /\ send_ai_message(1, token, data)
        /\ chatHist' = Append(chatHist, <<req', resp'>>)

NextChat == Chat

SpecChat == InitChat /\ [][NextChat]_vars

----------------------------------------------------------------------------
(* Claims about validate() *)

Blank(fd, f) == f \notin DOMAIN fd \/ strip(fd[f]) = <<>>

InRange(fd, f, lo, hi) == lo <= Len(fd[f]) /\ Len(fd[f]) <= hi

LengthChecked(f, lo, hi) ==
    (f \in DOMAIN formdata /\ ~Blank(formdata, f)) =>
        /\ result.errors[f] = <<>> <=> InRange(formdata, f, lo, hi)
        /\ ~InRange(formdata, f, lo, hi) =>
               result.errors[f] = <<LengthMessage(lo, hi)>>

\* C7: once the required check has let an input through, Contact.name is
\* accepted iff 2 <= length <= 100 and Contact.message iff 10 <= length <= 2000,
\* both bounds inclusive; an input one outside either bound is rejected with
\* the length validator's error and nothing else.
C7_LengthInclusive ==
    (result.done /\ which = "ContactForm") =>
        /\ LengthChecked("name", 2, 100)
        /\ LengthChecked("message", 10, 2000)

C7_Witness ==
    /\ result.done /\ which = "ContactForm"
    /\ DOMAIN formdata = {"name", "email", "message"}
    /\ formdata.name = <<"a">> /\ result.errors.name = <<LengthMessage(2, 100)>>
    /\ formdata.message = Str_1234567890 /\ result.errors.message = <<>>

FirstFailing(vs, data) ==
    LET failing == {i \in 1..Len(vs) : ~CallValidator(vs[i], data).ok}
    IN  IF failing = {} THEN 0
        ELSE CHOOSE i \in failing : \A j \in failing : i <= j

\* C8: each field reports at most one error, the message of the first
\* validator in declared order that fails; an absent, empty or whitespace-only
\* field reports exactly the required-error, a field whose validators all
\* pass reports none, and {name: "", email: "a@b.com", message: "hello world"}
\* yields the required-error on name and nothing else.
C8_FirstFailingOnly ==
    result.done =>
        /\ \A f \in DOMAIN Schema(which) :
              LET vs == Schema(which)[f]
                  data == field_data(formdata, f)
                  k == FirstFailing(vs, data)
              IN  /\ Len(result.errors[f]) <= 1
                  /\ Blank(formdata, f) => result.errors[f] = <<RequiredMessage>>
                  /\ k = 0 => result.errors[f] = <<>>
                  /\ k # 0 => result.errors[f] = <<CallValidator(vs[k], data).msg>>
        /\ (/\ which = "ContactForm"
            /\ formdata = [name |-> <<>>, email |-> Str_a_b_com,
                           message |-> Str_hello_world])
           => /\ ~result.valid
              /\ result.errors = [name |-> <<RequiredMessage>>, email |-> <<>>,
                                  message |-> <<>>]

C8_Witness ==
    /\ result.done /\ which = "ContactForm"
    /\ formdata = [email |-> Str_a_b_com, message |-> Rep(" ", 10)]
    /\ result.errors = [name |-> <<RequiredMessage>>, email |-> <<>>,
                        message |-> <<RequiredMessage>>]

----------------------------------------------------------------------------
(* Claims about the form routes *)

HasKeys(data) ==
    /\ data.kind = "object"
    /\ MESSAGE \in DOMAIN data.obj
    /\ AGENTID \in DOMAIN data.obj

FormRoutes == {"/contact", "/newsletter"}

FormOf(path) == IF path = "/contact" THEN "ContactForm" ELSE "NewsletterForm"

TemplateOf(path) ==
    IF path = "/contact" THEN "contact_page.html" ELSE "newsletter_page.html"

AllValidatorsPass(form, fd) ==
    \A f \in DOMAIN Schema(form) :
        \A i \in 1..Len(Schema(form)[f]) :
            CallValidator(Schema(form)[f][i], field_data(fd, f)).ok

NoFlashAdded ==
    \A d \in Clients : Len(session'[d].flashes) <= Len(session[d].flashes)

\* C1: a request to /contact or /newsletter ends with one line logged, one
\* success flash message added to the client's session and a redirect to the
\* same route iff it is a POST that passed form.validate() (which a request
\* refused by the CSRF check never reaches); every other request, and so every
\* GET, logs nothing, adds no flash message and is not answered by a redirect.
C1_SuccessIffValidPost ==
    [][LET c == req'.client
           p == req'.path
           ok == /\ req'.method = "POST"
                 /\ validate_csrf(session, c, req'.token)
                 /\ validate(FormOf(p), req'.form)
       IN  p \in FormRoutes =>
             /\ ok => /\ Len(log') = Len(log) + 1
                      /\ SubSeq(log', 1, Len(log)) = log
                      /\ Len(session'[c].flashes) = Len(session[c].flashes) + 1
                      /\ session'[c].flashes[Len(session'[c].flashes)].category = "success"
                      /\ resp'.kind = "redirect" /\ resp'.location = p
             /\ ~ok => /\ log' = log
                       /\ NoFlashAdded
                       /\ resp'.kind # "redirect"]_vars

C1_Witness ==
    /\ req.path = "/newsletter" /\ req.method = "POST"
    /\ resp.kind = "redirect" /\ resp.location = "/newsletter"
    /\ Len(log) = 1 /\ Len(session[req.client].flashes) = 1

\* C2 as claimed: a POST to a form route is treated as valid iff every
\* validator of every field succeeds on the submitted mapping.
C2_Original ==
    (req.path \in FormRoutes /\ req.method = "POST") =>
        (resp.kind = "redirect" <=> AllValidatorsPass(FormOf(req.path), req.form))

\* C2, amended: a POST to /contact or /newsletter is treated as valid iff it
\* carries the CSRF token of the client's session and every validator of
\* every field of the schema (Contact: name, email, message; Newsletter:
\* email) succeeds on the submitted mapping.
C2_ValidIffCsrfAndValidators ==
    /\ DOMAIN Schema("ContactForm") = {"name", "email", "message"}
    /\ DOMAIN Schema("NewsletterForm") = {"email"}
    /\ (req.path \in FormRoutes /\ req.method = "POST") =>
         (resp.kind = "redirect" <=>
            /\ validate_csrf(session, req.client, req.token)
            /\ AllValidatorsPass(FormOf(req.path), req.form))

C2_Witness ==
    /\ req.path = "/contact" /\ req.method = "POST"
    /\ validate_csrf(session, req.client, req.token)
    /\ "email" \notin DOMAIN req.form
    /\ resp.kind = "page"

\* C3: every rendered page shows exactly the flash messages pending in the
\* client's session, each once, and leaves none pending, so a flash message
\* set by a successful POST is on the client's next rendered page and on no
\* later one; a page answering a GET shows no form errors; no flash message
\* is lost or shown twice.
C3_FlashDeliveredOnce ==
    [][LET c == req'.client
       IN  /\ resp'.kind = "page" =>
                /\ resp'.flashes = session[c].flashes
                /\ Len(resp'.flashes) = created[c] - delivered[c]
                /\ session'[c].flashes = <<>>
           /\ (resp'.kind = "page" /\ req'.method = "GET") =>
                \A f \in DOMAIN resp'.errors : resp'.errors[f] = <<>>
           /\ \A d \in Clients :
                delivered'[d] + Len(session'[d].flashes) = created'[d]]_vars

C3_Witness ==
    /\ req.method = "GET" /\ req.path = "/contact"
    /\ resp.kind = "page" /\ resp.flashes = <<>>
    /\ created[req.client] = 1 /\ delivered[req.client] = 1

FieldErrorsReported(form, fd, errors) ==
    /\ DOMAIN errors = DOMAIN Schema(form)
    /\ \E f \in DOMAIN errors : errors[f] # <<>>
    /\ \A f \in DOMAIN errors :
          errors[f] = <<>> <=>
              \A i \in 1..Len(Schema(form)[f]) :
                  CallValidator(Schema(form)[f][i], field_data(fd, f)).ok

\* C4 as claimed: a POST to a form route whose field validation fails gets
\* the same page with status 200, the entered values and the field errors,
\* with nothing logged, no flash message set and the pending flash messages
\* of the session left as they were.
C4_Original ==
    [][LET c == req'.client
           p == req'.path
       IN  (/\ p \in FormRoutes /\ req'.method = "POST"
            /\ ~AllValidatorsPass(FormOf(p), req'.form)) =>
             /\ resp'.kind = "page" /\ resp'.status = 200
             /\ resp'.template = TemplateOf(p)
             /\ resp'.values = req'.form
             /\ FieldErrorsReported(FormOf(p), req'.form, resp'.errors)
             /\ log' = log
             /\ session'[c].flashes = session[c].flashes]_vars

\* C4, amended: a POST to a form route that carries the session's CSRF token
\* and whose field validation fails gets the same page with status 200, the
\* entered values and the field errors; nothing is logged, no redirect is
\* issued and no flash message is set; the flash messages pending in the
\* client's session are shown on that page and thereby cleared, and no other
\* client's session changes.
C4_InvalidPostRerenders ==
    [][LET c == req'.client
           p == req'.path
       IN  (/\ p \in FormRoutes /\ req'.method = "POST"
            /\ validate_csrf(session, c, req'.token)
            /\ ~AllValidatorsPass(FormOf(p), req'.form)) =>
             /\ resp'.kind = "page" /\ resp'.status = 200
             /\ resp'.template = TemplateOf(p)
             /\ resp'.values = req'.form
             /\ FieldErrorsReported(FormOf(p), req'.form, resp'.errors)
             /\ log' = log
             /\ created' = created
             /\ resp'.flashes = session[c].flashes
             /\ session'[c].flashes = <<>>
             /\ \A d \in Clients \ {c} : session'[d] = session[d]]_vars

C4_Witness ==
    /\ req.path = "/contact" /\ req.method = "POST"
    /\ req.form.name = <<"a">>
    /\ resp.kind = "page" /\ resp.status = 200
    /\ resp.errors.name = <<LengthMessage(2, 100)>>
    /\ Len(resp.flashes) = 1

\* C9: a request of one client leaves every other client's session as it
\* was, the flash messages a page shows were all set by requests of the
\* client the page is rendered for, and so were those pending in a session.
C9_FlashPerSession ==
    [][LET c == req'.client
       IN  /\ \A d \in Clients \ {c} : session'[d] = session[d]
           /\ \A i \in 1..Len(resp'.flashes) : resp'.flashes[i].by = c
           /\ \A d \in Clients :
                \A i \in 1..Len(session'[d].flashes) :
                    session'[d].flashes[i].by = d]_vars

C9_Witness ==
    /\ session[1].flashes # <<>>
    /\ req.client = 2 /\ resp.kind = "page"
    /\ Len(resp.flashes) = 1 /\ resp.flashes[1].by = 2

\* C10: a POST to /contact, /newsletter or /api/ai-chat that does not carry
\* the CSRF token of the client's session is answered 400 and changes
\* nothing: no line is logged, no flash message is set, and it gets neither
\* a redirect nor a chat reply, whatever its fields.
C10_CsrfRequired ==
    [][LET c == req'.client
       IN  (req'.method = "POST" /\ ~validate_csrf(session, c, req'.token)) =>
             /\ resp'.status = 400 /\ resp'.kind = "error"
             /\ log' = log
             /\ session' = session
             /\ created' = created]_vars

C10_Witness ==
    /\ req.method = "POST" /\ req.path = "/api/ai-chat"
    /\ HasKeys(req.body)
    /\ req.token \in Clients \ {req.client}
    /\ session[req.token].csrf_token = req.token
    /\ session[req.client].csrf_token = req.client
    /\ resp.status = 400
    /\ log # <<>>

----------------------------------------------------------------------------
(* Claims about the chat stub *)

\* C5, for the requests that pass the CSRF check: the answer is 400 with
\* {"error": "Invalid message format"} if the body lacks the key `message`
\* or the key `agentId`, and 200 with a reply otherwise; no body leads to
\* any other outcome.
C5_Original ==
    (req.path = "/api/ai-chat" /\ validate_csrf(session, req.client, req.token)) =>
        IF HasKeys(req.body)
        THEN resp.status = 200 /\ resp.kind = "json" /\ resp.json.error = ""
        ELSE /\ resp.status = 400 /\ resp.kind = "json"
             /\ resp.json.error = "Invalid message format"

Accepted(i) == chatHist[i][2].status = 200

KnownAgents ==
    {JStr(<<"cosmic-guide">>), JStr(<<"harmonic-helper">>),
     JStr(<<"wisdom-keeper">>), JStr(<<"shop-oracle">>)}

SameTemplate(a, b) == a = b \/ (a \notin KnownAgents /\ b \notin KnownAgents)

\* C6: an accepted body's reply echoes agentId unchanged, contains the
\* user's message as the f-string renders it, and carries the request's
\* timestamp or "" when none was sent; two accepted requests with the same
\* body get the same reply whatever came before, and two with the same
\* message get the same text iff their agent ids select the same template
\* (one for each of the four known ids, one for all the others).
C6_CannedReply ==
    /\ \A i \in 1..Len(chatHist) :
          Accepted(i) =>
            LET o == chatHist[i][1].body.obj
                r == chatHist[i][2].json
            IN  /\ r.agentId = o[AGENTID]
                /\ IsSubstring(Format(o[MESSAGE]), r.message)
                /\ r.message # Format(o[MESSAGE])
                /\ r.timestamp =
                     IF TIMESTAMP \in DOMAIN o THEN o[TIMESTAMP] ELSE JStr(<<>>)
    /\ \A i, j \in 1..Len(chatHist) :
          (Accepted(i) /\ Accepted(j)) =>
            LET oi == chatHist[i][1].body.obj
                oj == chatHist[j][1].body.obj
            IN  /\ oi = oj => chatHist[i][2] = chatHist[j][2]
                /\ oi[MESSAGE] = oj[MESSAGE] =>
                     (chatHist[i][2].json.message = chatHist[j][2].json.message
                        <=> SameTemplate(oi[AGENTID], oj[AGENTID]))

C6_Witness ==
    /\ Len(chatHist) = 2 /\ Accepted(1) /\ Accepted(2)
    /\ chatHist[1][1].body = Obj(JStr(<<"cosmic-guide">>), JStr(Str_peace))
    /\ chatHist[2][1].body = Obj(JStr(<<"harmonic-helper">>), JStr(Str_peace))
    /\ chatHist[1][2].json.message # chatHist[2][2].json.message
    /\ IsSubstring(Str_peace, chatHist[2][2].json.message)

====
